---- MODULE Spec2Model ----
(***************************************************************************)
(* doubletap-rl: the capture / block / record / replay engine.             *)
(*                                                                         *)
(* Execution contexts of the program:                                      *)
(*   - the input callback (src/input_listener.rs, InputListener::start),   *)
(*     one event at a time, each access to a shared atomic or mutex one    *)
(*     step;                                                               *)
(*   - the dispatch loop (src/main.rs, main);                              *)
(*   - the focus poller (src/focus_detector.rs, start_focus_poller);       *)
(*   - one replay worker per harvested session (src/input_simulator.rs).   *)
(***************************************************************************)
EXTENDS Integers, Sequences, FiniteSets, TLC

\* ------------------------------------------------------------- bounds
MaxTime == 100          \* the clock stops advancing here
TickMs == 100           \* granularity of the clock
MaxInputs == 3          \* physical events delivered in one run
MaxFlips == 2           \* changes of the focus snapshot in one run
MaxClicks == 2          \* send_right_click calls in one run

\* bounds of the runs in which every handler runs to completion
SeqMaxTime == 150
SeqTickMs == 50
SeqMaxInputs == 5
SeqMaxFlips == 2
SeqMaxClicks == 1

\* ---------------------------------------------------- program constants
MIN_CLICK_INTERVAL_MS == 100

WASD == {"KeyW", "KeyA", "KeyS", "KeyD"}
ShiftLeft == "ShiftLeft"
Right == "Right"

\* keys the modelled keyboard produces: one movement key, the modifier and
\* one key the program does not handle
PhysKeys == {"KeyW", ShiftLeft, "KeyQ"}

NoEvent == [type |-> "None", key |-> "None", echo |-> FALSE]

VARIABLES
    now,                 \* PROGRAM_START.elapsed() in ms
    PROGRAM_START,       \* TRUE once the OnceLock is initialised
    LAST_AUTO_CLICK_MS,
    BLOCKING_KEYS,
    RECORDING_START_MS,
    RECORDED_KEYS,
    HELD_KEYS,
    is_focused,          \* FocusState.is_focused
    chan,                \* mpsc channel of RightClickEvent
    echoQ,               \* events of the synthetic click not yet delivered
    cbPc, cbEv, cbOffset,                   \* the input callback
    cbInWindow,          \* the event arrived within the window after an injection
    dpPc, dpStage, dpEnd, recorded,         \* the dispatch loop
    workers,             \* replay workers, in spawn order; slept: ms slept so far
    lastEmit,            \* last transition sent to ydotool, per movement key
    clicks,              \* send_right_click calls so far
    inputs,              \* physical events delivered so far
    flips,               \* changes of the focus snapshot so far
    injectedAt,          \* time of the last successful send_right_click, or -1
    sessHarvested,       \* the latest session was drained or its discard began
    sessRel,             \* none / awaiting / released: the session's right-release
    discardWhy,          \* why stop_blocking_keys runs: unfocused / click_failed
    grTaken, grHeld,     \* get_recording: the buffer as taken, the held keys as drained
    markedAt,            \* time of the last mark_auto_click_sent, or -1
    hostKey,             \* what the host has seen of each movement key
    keysLock, heldLock   \* the holder of the mutex of RECORDED_KEYS / HELD_KEYS

vars == <<now, PROGRAM_START, LAST_AUTO_CLICK_MS, BLOCKING_KEYS,
          RECORDING_START_MS, RECORDED_KEYS, HELD_KEYS, is_focused, chan,
          echoQ, cbPc, cbEv, cbOffset, cbInWindow,
          dpPc, dpStage, dpEnd, recorded, workers, lastEmit, clicks,
          inputs, flips, injectedAt, sessHarvested, sessRel, discardWhy, grTaken, grHeld,
          markedAt, hostKey, keysLock, heldLock>>

shared == <<LAST_AUTO_CLICK_MS, BLOCKING_KEYS, RECORDING_START_MS,
            RECORDED_KEYS, HELD_KEYS>>
cbVars == <<cbPc, cbEv, cbOffset, cbInWindow>>
dpVars == <<dpPc, dpStage, dpEnd, recorded, discardWhy, grTaken, grHeld>>
envVars == <<is_focused, inputs, flips>>
replayVars == <<workers, lastEmit>>
ghostVars == <<injectedAt, sessHarvested, sessRel, markedAt>>
lockVars == <<keysLock, heldLock>>

\* ------------------------------------------------------------ helpers
SatSub(a, b) == IF a >= b THEN a - b ELSE 0

RecordedKeyEvent(k, p, o) == [key |-> k, is_press |-> p, offset_ms |-> o]

is_wasd_key(k) == k \in WASD

key_to_code(k) ==
    CASE k = "KeyW" -> 17
      [] k = "KeyA" -> 30
      [] k = "KeyS" -> 31
      [] k = "KeyD" -> 32
      [] k = ShiftLeft -> 42
      [] OTHER -> 0

SeqContains(s, x) == \E i \in 1..Len(s) : s[i] = x

\* Vec::retain
Retain(s, Keep(_)) == SelectSeq(s, Keep)

\* record_key_event, the HELD_KEYS update
HeldUpdate(held, key, is_press) ==
    IF is_press
    THEN IF SeqContains(held, key) THEN held ELSE Append(held, key)
    ELSE Retain(held, LAMBDA k : k # key)

\* a drain that forgets the release of a held movement key
HeldKeyPolicyNoRelease(events, key, end_offset) ==
    IF key = ShiftLeft
    THEN Retain(events, LAMBDA e : ~(e.key = ShiftLeft /\ e.is_press))
    ELSE events

\* a drain that removes only the last press of the held modifier
HeldKeyPolicyLastPressOnly(events, key, end_offset) ==
    IF key = ShiftLeft
    THEN LET idx == {i \in 1..Len(events) :
                        events[i].key = ShiftLeft /\ events[i].is_press}
             last == IF idx = {} THEN 0
                     ELSE CHOOSE i \in idx : \A j \in idx : j <= i
         IN  [i \in 1..(Len(events) - (IF last = 0 THEN 0 ELSE 1)) |->
                 IF last # 0 /\ i >= last THEN events[i + 1] ELSE events[i]]
    ELSE Append(events, RecordedKeyEvent(key, FALSE, end_offset))

\* a drain that closes the held modifier with a release of its own
HeldKeyPolicyShiftRelease(events, key, end_offset) ==
    IF key = ShiftLeft
    THEN Append(Retain(events, LAMBDA e : ~(e.key = ShiftLeft /\ e.is_press)),
                RecordedKeyEvent(ShiftLeft, FALSE, end_offset))
    ELSE Append(events, RecordedKeyEvent(key, FALSE, end_offset))

\* get_recording, one iteration of `for key in held.drain(..)`
HeldKeyPolicy(events, key, end_offset) ==
    IF key = ShiftLeft
    THEN Retain(events, LAMBDA e : ~(e.key = ShiftLeft /\ e.is_press))
    ELSE Append(events, RecordedKeyEvent(key, FALSE, end_offset))

RECURSIVE DrainHeld(_, _, _)
DrainHeld(held, events, end_offset) ==
    IF held = <<>> THEN events
    ELSE DrainHeld(Tail(held), HeldKeyPolicy(events, Head(held), end_offset),
                   end_offset)

\* should_ignore_event after both loads
TooSoon(last_click, t) == SatSub(t, last_click) < MIN_CLICK_INTERVAL_MS

\* a start that never returns early
NeverAlreadyBlocking(flag) == FALSE

\* start_blocking_and_recording, the early return
AlreadyBlocking(flag) == flag

\* key arms that do not consult the focus snapshot
ArmAlwaysFocused(f) == TRUE

\* the key arms of the callback: `&& focus_state.is_focused()`
ArmFocused(f) == f

\* the right-button arms of the callback: `&& focus_state.is_focused()`
RightFocused(f) == f

\* arms that block every recorded key
ArmValueAlwaysNone(key) == "ret_none"

\* the value of a recording arm: None for W/A/S/D, Some(event) for ShiftLeft
ArmValue(key) == IF is_wasd_key(key) THEN "ret_none" ELSE "ret_some"

\* a MutexGuard that outlives the block it was taken in
GuardKept(holder) == holder

\* the MutexGuard of `if let Ok(mut ..) = ...lock() { .. }` is dropped at the
\* end of the block
GuardDropped(holder) == "none"

\* what the host has seen of a movement key once the callback returns: an
\* event returned as Some(event) reaches the host; a release returned as None
\* while the host has the key down by a press that reached it is owed
HostAfterReturn(host, pc, ev) ==
    IF ev.key \notin DOMAIN host THEN host
    ELSE IF pc = "ret_some"
    THEN [host EXCEPT ![ev.key] = IF ev.type = "KeyPress" THEN "down" ELSE "up"]
    ELSE IF pc = "ret_none" /\ ev.type = "KeyRelease" /\ host[ev.key] = "down"
    THEN [host EXCEPT ![ev.key] = "owed"]
    ELSE host

\* a success branch that marks the echo guard before it finalizes
HarvestOrderMarkFirst ==
    <<"mark_auto_click_sent", "get_recording", "replay_recorded_keys">>

\* main: the statements of the success branch, in program order
HarvestOrder == <<"get_recording", "mark_auto_click_sent", "replay_recorded_keys">>

Entry(fn) ==
    CASE fn = "get_recording" -> "gr_time"
      [] fn = "mark_auto_click_sent" -> "mark_last"
      [] fn = "replay_recorded_keys" -> "replay"

\* ----------------------------------------------------------------- Init
Init ==
    /\ now = 0
    /\ PROGRAM_START = FALSE
    /\ LAST_AUTO_CLICK_MS = 0
    /\ BLOCKING_KEYS = FALSE
    /\ RECORDING_START_MS = 0
    /\ RECORDED_KEYS = <<>>
    /\ HELD_KEYS = <<>>
    /\ is_focused = FALSE
    /\ chan = <<>>
    /\ echoQ = <<>>
    /\ cbPc = "idle" /\ cbEv = NoEvent /\ cbOffset = 0
    /\ cbInWindow = FALSE
    /\ dpPc = "recv" /\ dpStage = 0 /\ dpEnd = 0 /\ recorded = <<>>
    /\ workers = <<>>
    /\ lastEmit = [k \in WASD \cap PhysKeys |-> "none"]
    /\ clicks = 0
    /\ inputs = 0
    /\ flips = 0
    /\ injectedAt = -1
    /\ sessHarvested = TRUE
    /\ sessRel = "none"
    /\ discardWhy = "none"
    /\ grTaken = <<>> /\ grHeld = <<>>
    /\ markedAt = -1
    /\ hostKey = [k \in WASD \cap PhysKeys |-> "up"]
    /\ keysLock = "none" /\ heldLock = "none"

\* ---------------------------------------------------------- environment
\* the clock; it starts with the first now_ms()
Tick(tickMs, maxTime) ==
    /\ PROGRAM_START
    /\ now + tickMs <= maxTime
    /\ now' = now + tickMs
    /\ UNCHANGED <<hostKey, lockVars, PROGRAM_START, shared, envVars, chan, echoQ, cbVars, dpVars,
                   replayVars, clicks, ghostVars>>

\* start_focus_poller: state.set_focused(detector.is_target_focused())
FocusPoll(maxFlips) ==
    /\ flips < maxFlips
    /\ flips' = flips + 1
    /\ is_focused' = ~is_focused
    /\ UNCHANGED <<hostKey, lockVars, now, PROGRAM_START, shared, inputs, chan, echoQ, cbVars,
                   dpVars, replayVars, clicks, ghostVars>>

\* ------------------------------------------------------- input callback
\* should_ignore_event
should_ignore_event ==
    IF LAST_AUTO_CLICK_MS = 0 THEN FALSE ELSE TooSoon(LAST_AUTO_CLICK_MS, now)

\* the event is a right-button event seen within the window after an injection
InWindow(type) ==
    /\ type \in {"ButtonPress", "ButtonRelease"}
    /\ injectedAt >= 0
    /\ now < injectedAt + MIN_CLICK_INTERVAL_MS

\* the match of the callback: the guard of the arm the event selects.  The
\* loads of one guard are taken in one step.
Arm(ev) ==
    /\ cbEv' = ev
    /\ cbInWindow' = InWindow(ev.type)
    /\ IF ev.type \in {"ButtonPress", "ButtonRelease"}
       THEN /\ cbPc' = IF ~should_ignore_event /\ RightFocused(is_focused)
                       THEN (IF ev.type = "ButtonPress" THEN "sbr_check"
                             ELSE "send")
                       ELSE "ret_some"
            /\ PROGRAM_START' = (PROGRAM_START \/ LAST_AUTO_CLICK_MS # 0)
            /\ cbOffset' = 0
       ELSE IF (ev.key = ShiftLeft \/ is_wasd_key(ev.key))
                /\ BLOCKING_KEYS /\ ArmFocused(is_focused)
       THEN \* record_key_event: offset_ms
            /\ cbPc' = "rec_held"
            /\ PROGRAM_START' = TRUE
            /\ cbOffset' = SatSub(now, RECORDING_START_MS)
       ELSE /\ cbPc' = "ret_some"
            /\ cbOffset' = 0
            /\ UNCHANGED PROGRAM_START

\* grab() hands the callback a physical event
DeliverPhysical(maxInputs) ==
    /\ cbPc = "idle"
    /\ inputs < maxInputs
    /\ inputs' = inputs + 1
    /\ \E type \in {"ButtonPress", "ButtonRelease", "KeyPress", "KeyRelease"} :
       \E k \in PhysKeys \cup {Right} :
            /\ k = Right <=> type \in {"ButtonPress", "ButtonRelease"}
            /\ Arm([type |-> type, key |-> k, echo |-> FALSE])
    /\ UNCHANGED <<hostKey, lockVars, now, shared, is_focused, flips, chan, echoQ, dpVars,
                   replayVars, clicks, ghostVars>>

\* grab() hands the callback an event of the synthetic click
DeliverEcho ==
    /\ cbPc = "idle"
    /\ echoQ # <<>>
    /\ Arm([type |-> Head(echoQ), key |-> Right, echo |-> TRUE])
    /\ echoQ' = Tail(echoQ)
    /\ UNCHANGED <<hostKey, lockVars, now, shared, envVars, chan, dpVars, replayVars, clicks,
                   ghostVars>>

\* start_blocking_and_recording: `if BLOCKING_KEYS.load() { return; }`
SbrCheck ==
    /\ cbPc = "sbr_check"
    /\ cbPc' = IF AlreadyBlocking(BLOCKING_KEYS) THEN "sbr_ret"
               ELSE "sbr_clear_keys"
    /\ UNCHANGED <<hostKey, lockVars, now, PROGRAM_START, shared, envVars, chan, echoQ, cbEv,
                   cbOffset, cbInWindow, dpVars, replayVars, clicks, ghostVars>>

\* start_blocking_and_recording: keys.clear()
SbrClearKeys ==
    /\ cbPc = "sbr_clear_keys"
    /\ keysLock = "callback"
    /\ keysLock' = GuardDropped(keysLock)
    /\ RECORDED_KEYS' = <<>>
    /\ cbPc' = "sbr_clear_held"
    /\ UNCHANGED <<hostKey, heldLock, now, PROGRAM_START, LAST_AUTO_CLICK_MS, BLOCKING_KEYS,
                   RECORDING_START_MS, HELD_KEYS, envVars, chan, echoQ, cbEv,
                   cbOffset, cbInWindow, dpVars, replayVars, clicks, ghostVars>>

\* start_blocking_and_recording: held.clear()
SbrClearHeld ==
    /\ cbPc = "sbr_clear_held"
    /\ heldLock = "callback"
    /\ heldLock' = GuardDropped(heldLock)
    /\ HELD_KEYS' = <<>>
    /\ cbPc' = "sbr_store_start"
    /\ UNCHANGED <<hostKey, keysLock, now, PROGRAM_START, LAST_AUTO_CLICK_MS, BLOCKING_KEYS,
                   RECORDING_START_MS, RECORDED_KEYS, envVars, chan, echoQ, cbEv,
                   cbOffset, cbInWindow, dpVars, replayVars, clicks, ghostVars>>

\* start_blocking_and_recording: RECORDING_START_MS.store(now_ms())
SbrStoreStart ==
    /\ cbPc = "sbr_store_start"
    /\ PROGRAM_START' = TRUE
    /\ RECORDING_START_MS' = now
    /\ cbPc' = "sbr_store_flag"
    /\ UNCHANGED <<hostKey, lockVars, now, LAST_AUTO_CLICK_MS, BLOCKING_KEYS, RECORDED_KEYS,
                   HELD_KEYS, envVars, chan, echoQ, cbEv, cbOffset, cbInWindow,
                   dpVars, replayVars, clicks, ghostVars>>

\* start_blocking_and_recording: BLOCKING_KEYS.store(true)
SbrStoreFlag ==
    /\ cbPc = "sbr_store_flag"
    /\ BLOCKING_KEYS' = TRUE
    /\ cbPc' = "ret_some"
    /\ sessHarvested' = FALSE
    /\ sessRel' = IF cbEv.echo THEN "none" ELSE "awaiting"
    /\ UNCHANGED <<hostKey, lockVars, now, PROGRAM_START, LAST_AUTO_CLICK_MS, RECORDING_START_MS,
                   RECORDED_KEYS, HELD_KEYS, envVars, chan, echoQ, cbEv,
                   cbOffset, cbInWindow, dpVars, replayVars, clicks, injectedAt, markedAt>>

\* the ButtonRelease arm: sender.send(click_event)
CbSend ==
    /\ cbPc = "send"
    /\ chan' = Append(chan, [echo |-> cbEv.echo])
    /\ cbPc' = "ret_some"
    /\ UNCHANGED <<hostKey, lockVars, now, PROGRAM_START, shared, envVars, echoQ, cbEv, cbOffset,
                   cbInWindow, dpVars, replayVars, clicks, ghostVars>>

\* record_key_event: the HELD_KEYS critical section
RecHeld ==
    /\ cbPc = "rec_held"
    /\ heldLock = "callback"
    /\ heldLock' = GuardDropped(heldLock)
    /\ HELD_KEYS' = HeldUpdate(HELD_KEYS, cbEv.key, cbEv.type = "KeyPress")
    /\ cbPc' = "rec_push"
    /\ UNCHANGED <<hostKey, keysLock, now, PROGRAM_START, LAST_AUTO_CLICK_MS, BLOCKING_KEYS,
                   RECORDING_START_MS, RECORDED_KEYS, envVars, chan, echoQ, cbEv,
                   cbOffset, cbInWindow, dpVars, replayVars, clicks, ghostVars>>

\* record_key_event: the RECORDED_KEYS critical section; then the arm's value
RecPush ==
    /\ cbPc = "rec_push"
    /\ keysLock = "callback"
    /\ keysLock' = GuardDropped(keysLock)
    /\ RECORDED_KEYS' = Append(RECORDED_KEYS,
           RecordedKeyEvent(cbEv.key, cbEv.type = "KeyPress", cbOffset))
    /\ cbPc' = ArmValue(cbEv.key)
    /\ cbOffset' = 0
    /\ UNCHANGED <<hostKey, heldLock, now, PROGRAM_START, LAST_AUTO_CLICK_MS, BLOCKING_KEYS,
                   RECORDING_START_MS, HELD_KEYS, envVars, chan, echoQ, cbEv,
                   cbInWindow, dpVars, replayVars, clicks, ghostVars>>

\* start_blocking_and_recording: get_recorded_keys().lock(), get_held_keys().lock()
SbrLock ==
    /\ \/ /\ cbPc = "sbr_clear_keys"
          /\ keysLock = "none"
          /\ keysLock' = "callback"
          /\ UNCHANGED heldLock
       \/ /\ cbPc = "sbr_clear_held"
          /\ heldLock = "none"
          /\ heldLock' = "callback"
          /\ UNCHANGED keysLock
    /\ UNCHANGED <<hostKey, now, PROGRAM_START, shared, envVars, chan, echoQ, cbVars,
                   dpVars, replayVars, clicks, ghostVars>>

\* record_key_event: get_held_keys().lock(), get_recorded_keys().lock()
RecLock ==
    /\ \/ /\ cbPc = "rec_push"
          /\ keysLock = "none"
          /\ keysLock' = "callback"
          /\ UNCHANGED heldLock
       \/ /\ cbPc = "rec_held"
          /\ heldLock = "none"
          /\ heldLock' = "callback"
          /\ UNCHANGED keysLock
    /\ UNCHANGED <<hostKey, now, PROGRAM_START, shared, envVars, chan, echoQ, cbVars,
                   dpVars, replayVars, clicks, ghostVars>>

\* the callback returns Some(event) or None to grab()
CbReturn ==
    /\ cbPc \in {"ret_some", "ret_none", "sbr_ret"}
    /\ cbPc' = "idle"
    /\ cbEv' = NoEvent
    /\ cbInWindow' = FALSE
    /\ hostKey' = HostAfterReturn(hostKey, cbPc, cbEv)
    /\ sessRel' = IF cbEv.type = "ButtonRelease" /\ ~cbEv.echo
                     /\ sessRel = "awaiting"
                  THEN "released" ELSE sessRel
    /\ UNCHANGED <<lockVars, now, PROGRAM_START, shared, envVars, chan, echoQ, cbOffset,
                   dpVars, replayVars, clicks, injectedAt, sessHarvested, markedAt>>

\* -------------------------------------------------------- dispatch loop
\* the pc after a function of the success branch returns
Advance(stage) ==
    IF stage < Len(HarvestOrder) THEN Entry(HarvestOrder[stage + 1]) ELSE "recv"

AdvanceStage(stage) == IF stage < Len(HarvestOrder) THEN stage + 1 ELSE 0

\* receiver.recv_timeout(..) returns Ok(event) and
\* `if focus_state.is_focused()` fails: stop_blocking_keys()
DpNotFocused ==
    /\ dpPc = "recv"
    /\ chan # <<>>
    /\ chan' = Tail(chan)
    /\ ~is_focused
    /\ dpPc' = "stop_flag"
    /\ discardWhy' = "unfocused"
    /\ UNCHANGED <<hostKey, lockVars, now, PROGRAM_START, shared, envVars, echoQ, cbVars, dpStage,
                   dpEnd, recorded, grTaken, grHeld, replayVars, clicks, ghostVars>>

\* Ok(event), focused, and simulator.send_right_click(): `ydotool click 0xC1`
\* succeeds or fails
DpClick(maxClicks) ==
    /\ dpPc = "recv"
    /\ chan # <<>>
    /\ chan' = Tail(chan)
    /\ is_focused
    /\ clicks < maxClicks
    /\ clicks' = clicks + 1
    /\ \E ok \in BOOLEAN :
         IF ok
         THEN /\ echoQ' = echoQ \o <<"ButtonPress", "ButtonRelease">>
              /\ injectedAt' = now
              /\ dpStage' = 1
              /\ dpPc' = Entry(HarvestOrder[1])
              /\ UNCHANGED discardWhy
         ELSE /\ dpPc' = "stop_flag"
              /\ discardWhy' = "click_failed"
              /\ UNCHANGED <<echoQ, injectedAt, dpStage>>
    /\ UNCHANGED <<hostKey, lockVars, now, PROGRAM_START, shared, envVars, cbVars, dpEnd,
                   recorded, grTaken, grHeld, replayVars, sessHarvested,
                   sessRel, markedAt>>

\* get_recording: end_offset = now_ms().saturating_sub(recording_start)
GrTime ==
    /\ dpPc = "gr_time"
    /\ PROGRAM_START' = TRUE
    /\ dpEnd' = SatSub(now, RECORDING_START_MS)
    /\ dpPc' = "gr_take"
    /\ UNCHANGED <<hostKey, lockVars, now, shared, envVars, chan, echoQ, cbVars, dpStage, recorded,
                   discardWhy, grTaken, grHeld, replayVars, clicks, ghostVars>>

\* get_recording: std::mem::take(&mut *keys)
GrTake ==
    /\ dpPc = "gr_take"
    /\ keysLock = "dispatch"
    /\ keysLock' = GuardDropped(keysLock)
    /\ recorded' = RECORDED_KEYS
    /\ RECORDED_KEYS' = <<>>
    /\ grTaken' = RECORDED_KEYS
    /\ dpPc' = "gr_drain"
    /\ UNCHANGED <<hostKey, heldLock, now, PROGRAM_START, LAST_AUTO_CLICK_MS, BLOCKING_KEYS,
                   RECORDING_START_MS, HELD_KEYS, envVars, chan, echoQ, cbVars,
                   dpStage, dpEnd, discardWhy, grHeld, replayVars, clicks, ghostVars>>

\* get_recording: the HELD_KEYS critical section, then `events` is returned
GrDrain ==
    /\ dpPc = "gr_drain"
    /\ heldLock = "dispatch"
    /\ heldLock' = GuardDropped(heldLock)
    /\ recorded' = DrainHeld(HELD_KEYS, recorded, dpEnd)
    /\ HELD_KEYS' = <<>>
    /\ grHeld' = HELD_KEYS
    /\ dpPc' = Advance(dpStage)
    /\ dpStage' = AdvanceStage(dpStage)
    /\ sessHarvested' = TRUE
    /\ UNCHANGED <<hostKey, keysLock, now, PROGRAM_START, LAST_AUTO_CLICK_MS, BLOCKING_KEYS,
                   RECORDING_START_MS, RECORDED_KEYS, envVars, chan, echoQ,
                   cbVars, dpEnd, discardWhy, grTaken, replayVars, clicks, injectedAt, markedAt,
                   sessRel>>

\* mark_auto_click_sent: LAST_AUTO_CLICK_MS.store(now_ms())
MarkLast ==
    /\ dpPc = "mark_last"
    /\ PROGRAM_START' = TRUE
    /\ LAST_AUTO_CLICK_MS' = now
    /\ dpPc' = "mark_flag"
    /\ markedAt' = now
    /\ UNCHANGED <<hostKey, lockVars, now, BLOCKING_KEYS, RECORDING_START_MS, RECORDED_KEYS,
                   HELD_KEYS, envVars, chan, echoQ, cbVars, dpStage, dpEnd,
                   recorded, discardWhy, grTaken, grHeld, replayVars, clicks, injectedAt, sessHarvested, sessRel>>

\* mark_auto_click_sent: BLOCKING_KEYS.store(false)
MarkFlag ==
    /\ dpPc = "mark_flag"
    /\ BLOCKING_KEYS' = FALSE
    /\ dpPc' = Advance(dpStage)
    /\ dpStage' = AdvanceStage(dpStage)
    /\ sessRel' = "none"
    /\ UNCHANGED <<hostKey, lockVars, now, PROGRAM_START, LAST_AUTO_CLICK_MS, RECORDING_START_MS,
                   RECORDED_KEYS, HELD_KEYS, envVars, chan, echoQ, cbVars, dpEnd,
                   recorded, discardWhy, grTaken, grHeld, replayVars, clicks, injectedAt, markedAt,
                   sessHarvested>>

\* `if !recorded.is_empty() { simulator.replay_recorded_keys(recorded) }`:
\* thread::spawn of the replay worker
DpReplay ==
    /\ dpPc = "replay"
    /\ workers' = IF recorded # <<>>
                  THEN Append(workers, [events |-> recorded, last_offset |-> 0,
                                         slept |-> 0])
                  ELSE workers
    /\ recorded' = <<>>
    /\ dpEnd' = 0
    /\ grTaken' = <<>>
    /\ grHeld' = <<>>
    /\ dpPc' = Advance(dpStage)
    /\ dpStage' = AdvanceStage(dpStage)
    /\ UNCHANGED <<hostKey, lockVars, now, PROGRAM_START, shared, envVars, chan, echoQ, cbVars,
                   discardWhy, lastEmit, clicks, ghostVars>>

\* stop_blocking_keys: BLOCKING_KEYS.store(false)
StopFlag ==
    /\ dpPc = "stop_flag"
    /\ BLOCKING_KEYS' = FALSE
    /\ dpPc' = "stop_keys"
    /\ sessHarvested' = TRUE
    /\ sessRel' = "none"
    /\ UNCHANGED <<hostKey, lockVars, now, PROGRAM_START, LAST_AUTO_CLICK_MS, RECORDING_START_MS,
                   RECORDED_KEYS, HELD_KEYS, envVars, chan, echoQ, cbVars,
                   dpStage, dpEnd, recorded, discardWhy, grTaken, grHeld, replayVars, clicks,
                   injectedAt, markedAt>>

\* stop_blocking_keys: keys.clear()
StopKeys ==
    /\ dpPc = "stop_keys"
    /\ keysLock = "dispatch"
    /\ keysLock' = GuardDropped(keysLock)
    /\ RECORDED_KEYS' = <<>>
    /\ dpPc' = "stop_held"
    /\ UNCHANGED <<hostKey, heldLock, now, PROGRAM_START, LAST_AUTO_CLICK_MS, BLOCKING_KEYS,
                   RECORDING_START_MS, HELD_KEYS, envVars, chan, echoQ, cbVars,
                   dpStage, dpEnd, recorded, discardWhy, grTaken, grHeld, replayVars, clicks,
                   ghostVars>>

\* stop_blocking_keys: held.clear(); the handler is complete
StopHeld ==
    /\ dpPc = "stop_held"
    /\ heldLock = "dispatch"
    /\ heldLock' = GuardDropped(heldLock)
    /\ HELD_KEYS' = <<>>
    /\ dpPc' = "recv"
    /\ discardWhy' = "none"
    /\ UNCHANGED <<hostKey, keysLock, now, PROGRAM_START, LAST_AUTO_CLICK_MS, BLOCKING_KEYS,
                   RECORDING_START_MS, RECORDED_KEYS, envVars, chan, echoQ,
                   cbVars, dpStage, dpEnd, recorded, grTaken, grHeld, replayVars, clicks,
                   ghostVars>>

\* get_recording: get_recorded_keys().lock(), get_held_keys().lock()
GrLock ==
    /\ \/ /\ dpPc = "gr_take"
          /\ keysLock = "none"
          /\ keysLock' = "dispatch"
          /\ UNCHANGED heldLock
       \/ /\ dpPc = "gr_drain"
          /\ heldLock = "none"
          /\ heldLock' = "dispatch"
          /\ UNCHANGED keysLock
    /\ UNCHANGED <<hostKey, now, PROGRAM_START, shared, envVars, chan, echoQ, cbVars,
                   dpVars, replayVars, clicks, ghostVars>>

\* stop_blocking_keys: get_recorded_keys().lock(), get_held_keys().lock()
StopLock ==
    /\ \/ /\ dpPc = "stop_keys"
          /\ keysLock = "none"
          /\ keysLock' = "dispatch"
          /\ UNCHANGED heldLock
       \/ /\ dpPc = "stop_held"
          /\ heldLock = "none"
          /\ heldLock' = "dispatch"
          /\ UNCHANGED keysLock
    /\ UNCHANGED <<hostKey, now, PROGRAM_START, shared, envVars, chan, echoQ, cbVars,
                   dpVars, replayVars, clicks, ghostVars>>

\* -------------------------------------------------------- replay worker
\* a sequence without its i-th element
RemoveAt(s, i) == SubSeq(s, 1, i - 1) \o SubSeq(s, i + 1, Len(s))

\* replay_recorded_keys: `if event.offset_ms > last_offset { sleep(..) }`
ReplayWait(offset_ms, last_offset) ==
    IF offset_ms > last_offset THEN offset_ms - last_offset ELSE 0

\* replay_recorded_keys: one iteration of `for event in events`
ReplayStep ==
    \E i \in 1..Len(workers) :
        /\ workers[i].events # <<>>
        /\ LET w == workers[i]
               e == Head(w.events)
               sent == key_to_code(e.key) # 0
               rest == [events |-> Tail(w.events),
                        last_offset |-> e.offset_ms,
                        slept |-> w.slept + ReplayWait(e.offset_ms, w.last_offset)]
           IN /\ workers' = [workers EXCEPT ![i] = rest]
              /\ lastEmit' = IF sent /\ e.key \in DOMAIN lastEmit
                             THEN [lastEmit EXCEPT ![e.key] =
                                      IF e.is_press THEN "press" ELSE "release"]
                             ELSE lastEmit
              /\ hostKey' = IF sent /\ e.key \in DOMAIN hostKey
                            THEN [hostKey EXCEPT ![e.key] =
                                     IF e.is_press THEN "replayed" ELSE "up"]
                            ELSE hostKey
    /\ UNCHANGED <<lockVars, now, PROGRAM_START, shared, envVars, chan, echoQ, cbVars,
                   dpVars, clicks, ghostVars>>

\* replay_recorded_keys: the loop is over and the worker thread ends
ReplayExit ==
    \E i \in 1..Len(workers) :
        /\ workers[i].events = <<>>
        /\ workers' = RemoveAt(workers, i)
    /\ UNCHANGED <<hostKey, lockVars, now, PROGRAM_START, shared, envVars, chan, echoQ, cbVars,
                   dpVars, lastEmit, clicks, ghostVars>>

\* ------------------------------------------------------- specifications
CbStep ==
    \/ SbrCheck \/ SbrClearKeys \/ SbrClearHeld \/ SbrStoreStart \/ SbrStoreFlag
    \/ CbSend \/ RecHeld \/ RecPush \/ CbReturn
    \/ SbrLock \/ RecLock

DpStep ==
    \/ GrTime \/ GrTake \/ GrDrain \/ MarkLast \/ MarkFlag \/ DpReplay
    \/ StopFlag \/ StopKeys \/ StopHeld
    \/ GrLock \/ StopLock

\* every interleaving of the execution contexts
Next ==
    \/ Tick(TickMs, MaxTime) \/ FocusPoll(MaxFlips)
    \/ DeliverPhysical(MaxInputs) \/ DeliverEcho
    \/ CbStep
    \/ DpNotFocused \/ DpClick(MaxClicks)
    \/ DpStep
    \/ ReplayStep \/ ReplayExit

Spec == Init /\ [][Next]_vars

\* every handler runs to completion: an event is handed to the callback and a
\* trigger to the dispatch loop only when neither is inside a handler
HandlersIdle == cbPc = "idle" /\ dpPc = "recv"

SeqNext ==
    \/ CbStep
    \/ cbPc = "idle" /\ DpStep
    \/ HandlersIdle /\ Tick(SeqTickMs, SeqMaxTime)
    \/ HandlersIdle /\ FocusPoll(SeqMaxFlips)
    \/ HandlersIdle /\ DeliverPhysical(SeqMaxInputs)
    \/ HandlersIdle /\ DeliverEcho
    \/ HandlersIdle /\ DpNotFocused
    \/ HandlersIdle /\ DpClick(SeqMaxClicks)
    \/ HandlersIdle /\ ReplayStep
    \/ HandlersIdle /\ ReplayExit

SeqSpec == Init /\ [][SeqNext]_vars

\* the threads the scheduler runs: the callback and the dispatch loop finish
\* the handler they are in, the dispatch loop takes a trigger that waits in
\* the channel, grab() delivers the events of an injected click, and a replay
\* worker runs to its end.  Physical input, focus changes and the passing of
\* time are not owed.
Fairness ==
    /\ WF_vars(CbStep)
    /\ WF_vars(cbPc = "idle" /\ DpStep)
    /\ WF_vars(HandlersIdle /\ (DpNotFocused \/ DpClick(SeqMaxClicks)))
    /\ WF_vars(HandlersIdle /\ DeliverEcho)
    /\ WF_vars(HandlersIdle /\ (ReplayStep \/ ReplayExit))

\* handlers run to completion under a fair scheduler
LiveSpec == Init /\ [][SeqNext]_vars /\ Fairness

TypeOK ==
    /\ now \in Nat
    /\ BLOCKING_KEYS \in BOOLEAN

\* ----------------------------------------------------------------- claims
Quiescent ==
    /\ cbPc = "idle"
    /\ dpPc = "recv"
    /\ chan = <<>>

SessionStartPcs ==
    {"sbr_clear_keys", "sbr_clear_held", "sbr_store_start", "sbr_store_flag"}

Count(s, k, p) == Cardinality({i \in 1..Len(s) : s[i].key = k /\ s[i].is_press = p})

\* the index of the last entry of key k in s, or 0
LastOf(s, k) ==
    IF \E i \in 1..Len(s) : s[i].key = k
    THEN CHOOSE i \in 1..Len(s) :
            /\ s[i].key = k
            /\ \A j \in (i + 1)..Len(s) : s[j].key # k
    ELSE 0

\* C1 as stated: when get_recording drains a held movement key, the returned
\* sequence has a release of the key at the finalize offset and as many
\* presses as releases of the key.
C1_PressReleaseBalanced ==
    \A k \in WASD : SeqContains(grHeld, k) =>
        /\ \E i \in 1..Len(recorded) :
              recorded[i] = RecordedKeyEvent(k, FALSE, dpEnd)
        /\ Count(recorded, k, TRUE) = Count(recorded, k, FALSE)

\* C1 as amended: when get_recording drains a held movement key, the last
\* entry of the key in the returned sequence is a release at the finalize
\* offset.
C1_HeldKeyReleasedLast ==
    \A k \in WASD : SeqContains(grHeld, k) =>
        /\ LastOf(recorded, k) # 0
        /\ recorded[LastOf(recorded, k)] = RecordedKeyEvent(k, FALSE, dpEnd)
        /\ dpEnd = SatSub(now, RECORDING_START_MS)

\* C1 witness: a movement key released and pressed again during the session
\* and still held at the harvest: one press, two releases
C1_Witness ==
    /\ SeqContains(grHeld, "KeyW")
    /\ Len(recorded) = 3
    /\ ~recorded[1].is_press /\ recorded[1].key = "KeyW"
    /\ recorded[2].is_press /\ recorded[2].key = "KeyW"
    /\ recorded[3] = RecordedKeyEvent("KeyW", FALSE, dpEnd)
    /\ dpEnd > recorded[2].offset_ms

\* C2: once the session state is Idle, no handler is running and every
\* started replay worker has finished, the last transition sent to the
\* synthesizer for each movement key is a release, or none was sent.
C2_NoKeyLeftPressed ==
    (Quiescent /\ ~BLOCKING_KEYS /\ workers = <<>>)
        => \A k \in DOMAIN lastEmit : lastEmit[k] # "press"

\* C3: a right-button event that reaches the callback within
\* MIN_CLICK_INTERVAL_MS of a synthetic click injection starts no session:
\* its handling never gets past the guards to the clearing of the buffer and
\* held-key set and the transition to Recording.
C3_EchoStartsNoSession ==
    cbInWindow => cbPc \notin SessionStartPcs

\* C4: the events of the system's own synthetic click never send a trigger
\* to the dispatch loop.
C4_EchoSendsNoTrigger ==
    \A i \in 1..Len(chan) : ~chan[i].echo

\* C5: start_blocking_and_recording called while the session is Recording
\* returns at once and leaves the buffer, the held-key set and the recording
\* start time as they were.
C5_IdempotentStart ==
    [][(cbPc = "sbr_check" /\ BLOCKING_KEYS /\ cbPc' # cbPc)
          => /\ cbPc' = "sbr_ret"
             /\ UNCHANGED <<RECORDED_KEYS, HELD_KEYS, RECORDING_START_MS>>]_vars

\* C5 witness: a right-press was refused while a recording with a held key
\* was in progress
C5_Witness ==
    /\ cbPc = "sbr_ret"
    /\ BLOCKING_KEYS
    /\ RECORDED_KEYS # <<>>
    /\ HELD_KEYS # <<>>

\* C6: start_blocking_and_recording never clears the buffer or the held-key
\* set while they hold entries of a session that has been neither harvested
\* nor discarded.
C6_NoClearBeforeHarvest ==
    /\ (cbPc = "sbr_clear_keys" /\ ~sessHarvested) => RECORDED_KEYS = <<>>
    /\ (cbPc = "sbr_clear_held" /\ ~sessHarvested) => HELD_KEYS = <<>>

\* C7: an event whose guard reads the focus snapshot as false is passed
\* through and changes nothing: no session start, no trigger, no entry in the
\* buffer or the held-key set, no suppression.
C7_FocusGate ==
    [][(cbPc = "idle" /\ cbPc' # "idle" /\ ~is_focused)
          => /\ cbPc' = "ret_some"
             /\ UNCHANGED <<shared, chan>>]_vars

\* C7 witness: a movement key passes through while Recording and unfocused
C7_Witness ==
    /\ cbPc = "ret_some"
    /\ is_wasd_key(cbEv.key)
    /\ BLOCKING_KEYS
    /\ ~is_focused
    /\ sessRel = "awaiting"

\* C8: when send_right_click fails, nothing is harvested and, once the
\* handler completes with no new session started meanwhile, the buffer and
\* the held-key set are empty and the session state is Idle.
C8_DiscardOnFailure ==
    [][(dpPc = "stop_held" /\ dpPc' = "recv" /\ discardWhy = "click_failed"
            /\ sessHarvested')
          => /\ ~BLOCKING_KEYS'
             /\ RECORDED_KEYS' = <<>>
             /\ HELD_KEYS' = <<>>
             /\ recorded' = <<>>]_vars

\* C9: a session whose matching right-release has been handled does not stay
\* in Recording with nothing left to end it (no handler running, no trigger
\* in the channel).
C9_SessionEnds ==
    ~(Quiescent /\ BLOCKING_KEYS /\ sessRel = "released")

IsShiftPress(e) == e.key = ShiftLeft /\ e.is_press
IsShiftRelease(e) == e.key = ShiftLeft /\ ~e.is_press

\* the presses of ShiftLeft in s that a release of ShiftLeft follows directly
\* (among the ShiftLeft entries)
CompletedShiftPresses(s) ==
    LET sh == SelectSeq(s, LAMBDA e : e.key = ShiftLeft)
    IN  Cardinality({i \in 1..(Len(sh) - 1) : sh[i].is_press /\ ~sh[i + 1].is_press})

\* C10 as stated: when ShiftLeft is held at the harvest, the press that holds
\* it is absent from the returned sequence and both entries of every ShiftLeft
\* press/release pair completed before remain: the presses that remain are
\* those of the completed pairs, and every release remains.
C10_CompletedPairsKept ==
    SeqContains(grHeld, ShiftLeft) =>
        /\ Len(SelectSeq(recorded, IsShiftPress)) = CompletedShiftPresses(grTaken)
        /\ SelectSeq(recorded, IsShiftRelease) = SelectSeq(grTaken, IsShiftRelease)

\* C10 as amended: when ShiftLeft is held at the harvest, the returned
\* sequence has no ShiftLeft press at all, and the release entries of the
\* pairs completed before remain.
C10_NoShiftPressReleasesKept ==
    SeqContains(grHeld, ShiftLeft) =>
        /\ SelectSeq(recorded, IsShiftPress) = <<>>
        /\ SelectSeq(recorded, IsShiftRelease) = SelectSeq(grTaken, IsShiftRelease)

\* C10 witness: press, release, press of ShiftLeft were taken and the key was
\* held; only the release is returned
C10_Witness ==
    /\ SeqContains(grHeld, ShiftLeft)
    /\ Len(SelectSeq(grTaken, IsShiftPress)) = 2
    /\ Len(SelectSeq(grTaken, IsShiftRelease)) = 1
    /\ IsShiftPress(grTaken[1])
    /\ Len(recorded) = 1
    /\ IsShiftRelease(recorded[1])

\* get_recording has returned and its result is not yet handed to the replay
Finalized == dpPc \in {"mark_last", "mark_flag", "replay"}

\* the entries after the first n of s
Rest(s, n) == SubSeq(s, n + 1, Len(s))

\* C11: when ShiftLeft is held at finalize time, the returned sequence begins
\* with the taken buffer less all its ShiftLeft presses (releases and other
\* keys in their order) and what follows has no ShiftLeft entry: no synthetic
\* ShiftLeft release; when ShiftLeft is not held, the returned sequence
\* begins with the whole taken buffer.
C11_BlanketShiftRemoval ==
    Finalized =>
        LET kept == IF SeqContains(grHeld, ShiftLeft)
                    THEN SelectSeq(grTaken, LAMBDA e : ~IsShiftPress(e))
                    ELSE grTaken
        IN  /\ Len(recorded) >= Len(kept)
            /\ SubSeq(recorded, 1, Len(kept)) = kept
            /\ \A i \in 1..Len(Rest(recorded, Len(kept))) :
                  Rest(recorded, Len(kept))[i].key # ShiftLeft

\* C11 witness: ShiftLeft was held, the taken buffer had a ShiftLeft press, a
\* ShiftLeft release and an entry of a movement key, and the two that are not
\* ShiftLeft presses were returned in their order
C11_Witness ==
    /\ Finalized
    /\ SeqContains(grHeld, ShiftLeft)
    /\ Len(grTaken) = 3
    /\ \E i \in 1..3 : IsShiftPress(grTaken[i])
    /\ \E i \in 1..3 : IsShiftRelease(grTaken[i])
    /\ \E i \in 1..3 : is_wasd_key(grTaken[i].key)
    /\ recorded = SelectSeq(grTaken, LAMBDA e : ~IsShiftPress(e))

\* the callback is in one of the arms that record and block: a press or
\* release of W, A, S or D matched with its guard true
SuppressArm ==
    /\ cbPc \in {"rec_held", "rec_push", "ret_none"}
    /\ is_wasd_key(cbEv.key)
    /\ cbEv.type \in {"KeyPress", "KeyRelease"}

\* C13: the callback returns None if and only if the event is a press or
\* release of W, A, S or D and, when its guard was evaluated, the session was
\* Recording and the focus snapshot true; right-button events, ShiftLeft
\* events and all others are passed through.
C13_SuppressIffMovementKey ==
    [][/\ (cbPc = "idle" /\ cbPc' # "idle")
            => (SuppressArm' <=> /\ is_wasd_key(cbEv'.key)
                                 /\ cbEv'.type \in {"KeyPress", "KeyRelease"}
                                 /\ BLOCKING_KEYS
                                 /\ is_focused)
       /\ (cbPc # "idle" /\ cbPc' # "idle") => (SuppressArm' <=> SuppressArm)
       /\ (cbPc # "idle" /\ cbPc' = "idle")
            => ((cbPc = "ret_none") <=> SuppressArm)]_vars

\* C13 witness: a press of W matched while Recording and focused has been
\* recorded and the callback is about to return None
C13_Witness ==
    /\ cbPc = "ret_none"
    /\ cbEv = [type |-> "KeyPress", key |-> "KeyW", echo |-> FALSE]
    /\ RECORDED_KEYS # <<>>
    /\ RECORDED_KEYS[Len(RECORDED_KEYS)].key = "KeyW"

\* the callback is in one of the arms that record: a press or release of
\* W, A, S, D or ShiftLeft matched with its guard true
RecordArm ==
    /\ cbPc \in {"rec_held", "rec_push"}
    /\ (is_wasd_key(cbEv.key) \/ cbEv.key = ShiftLeft)
    /\ cbEv.type \in {"KeyPress", "KeyRelease"}

\* C14: the callback appends an entry to the buffer and updates the held-key
\* set if and only if the event is a press or release of W, A, S, D or
\* ShiftLeft whose guard reads Recording and focused; for every other event,
\* and while Idle, no step of the callback changes the buffer or the
\* held-key set.
C14_RecordIffRecordedKey ==
    [][/\ (cbPc = "idle" /\ cbPc' # "idle")
            => (RecordArm' <=> /\ (is_wasd_key(cbEv'.key) \/ cbEv'.key = ShiftLeft)
                               /\ BLOCKING_KEYS
                               /\ is_focused)
       /\ (cbPc = "rec_held" /\ cbPc' # cbPc)
            => /\ cbPc' = "rec_push"
               /\ HELD_KEYS' = HeldUpdate(HELD_KEYS, cbEv.key, cbEv.type = "KeyPress")
       /\ (cbPc = "rec_push" /\ cbPc' # cbPc)
            => /\ Len(RECORDED_KEYS') = Len(RECORDED_KEYS) + 1
               /\ RECORDED_KEYS'[Len(RECORDED_KEYS')].key = cbEv.key
               /\ RECORDED_KEYS'[Len(RECORDED_KEYS')].is_press = (cbEv.type = "KeyPress")
       /\ (cbPc' # cbPc /\ ~RecordArm)
            => UNCHANGED <<RECORDED_KEYS, HELD_KEYS>>]_vars

\* C15: the session state goes from Idle to Recording only in
\* start_blocking_and_recording called for a right-press, and from Recording
\* to Idle only in mark_auto_click_sent after get_recording has drained that
\* session, or in stop_blocking_keys; the recording start time is written
\* only while Idle, on the way to Recording.
C15_SessionTransitions ==
    [][/\ (~BLOCKING_KEYS /\ BLOCKING_KEYS')
            => /\ cbPc = "sbr_store_flag"
               /\ cbEv.type = "ButtonPress"
       /\ (BLOCKING_KEYS /\ ~BLOCKING_KEYS')
            => \/ dpPc = "mark_flag" /\ sessHarvested
               \/ dpPc = "stop_flag"
       /\ (RECORDING_START_MS' # RECORDING_START_MS)
            => /\ ~BLOCKING_KEYS
               /\ cbPc = "sbr_store_start"]_vars

\* the steps of the dispatch loop on a trigger, in the two orders it has
HarvestPath ==
    {<<"recv", "gr_time">>, <<"gr_time", "gr_take">>, <<"gr_take", "gr_drain">>,
     <<"gr_drain", "mark_last">>, <<"mark_last", "mark_flag">>,
     <<"mark_flag", "replay">>, <<"replay", "recv">>}

DiscardPath ==
    {<<"recv", "stop_flag">>, <<"stop_flag", "stop_keys">>,
     <<"stop_keys", "stop_held">>, <<"stop_held", "recv">>}

\* C16: for each trigger the dispatch loop either, focused and with the click
\* injected, runs get_recording, then mark_auto_click_sent, then the replay
\* start, or, unfocused or with the injection failed, runs stop_blocking_keys
\* and nothing else; it injects at most once per trigger and never when
\* unfocused; the echo guard is marked and a replay started only on the
\* first path.
C16_DispatchOrder ==
    [][/\ (dpPc' # dpPc) => <<dpPc, dpPc'>> \in HarvestPath \cup DiscardPath
       /\ (dpPc = "recv" /\ dpPc' = "gr_time")
            => /\ is_focused
               /\ clicks' = clicks + 1
               /\ injectedAt' = now
               /\ chan' = Tail(chan)
       /\ (dpPc = "recv" /\ dpPc' = "stop_flag")
            => /\ chan' = Tail(chan)
               /\ UNCHANGED <<echoQ, injectedAt>>
               /\ \/ ~is_focused /\ clicks' = clicks
                  \/ is_focused /\ clicks' = clicks + 1
       /\ (clicks' # clicks \/ echoQ' = echoQ \o <<"ButtonPress", "ButtonRelease">>)
            => dpPc = "recv" /\ is_focused
       /\ (LAST_AUTO_CLICK_MS' # LAST_AUTO_CLICK_MS) => dpPc = "mark_last"
       /\ (Len(workers') > Len(workers)) => dpPc = "replay"
       /\ (dpPc \in {"stop_flag", "stop_keys", "stop_held"})
            => UNCHANGED <<recorded, LAST_AUTO_CLICK_MS, clicks>>]_vars

\* C16 witness: on the first path the dispatch loop has injected, finalized
\* and marked, and is about to start the replay of a non-empty sequence
C16_Witness ==
    /\ dpPc = "replay"
    /\ recorded # <<>>
    /\ injectedAt >= 0
    /\ clicks = 1
    /\ ~BLOCKING_KEYS

\* C17: when the dispatch loop has harvested a session and ended its
\* Recording phase, and no other session has begun, no W/A/S/D event that the
\* callback recorded and suppressed is left out of the sequence handed to the
\* replay: none is still in the buffer.
C17_NoSuppressedEventLost ==
    (dpPc = "replay" /\ cbPc = "idle" /\ ~BLOCKING_KEYS /\ sessHarvested)
        => \A i \in 1..Len(RECORDED_KEYS) : ~is_wasd_key(RECORDED_KEYS[i].key)

\* C18: the buffer changes only by the append of one entry, by the take of
\* get_recording, which moves all of it to the returned sequence and leaves
\* it empty, or by a clear of stop_blocking_keys or
\* start_blocking_and_recording, which returns nothing; while Recording it
\* is append-only until that take: no clear removes entries of a session that
\* is Recording.
C18_DrainedExactlyOnce ==
    [][(RECORDED_KEYS' # RECORDED_KEYS)
          => \/ /\ cbPc = "rec_push"
                /\ Len(RECORDED_KEYS') = Len(RECORDED_KEYS) + 1
                /\ SubSeq(RECORDED_KEYS', 1, Len(RECORDED_KEYS)) = RECORDED_KEYS
                /\ UNCHANGED recorded
             \/ /\ dpPc = "gr_take"
                /\ RECORDED_KEYS' = <<>>
                /\ recorded' = RECORDED_KEYS
             \/ /\ dpPc = "stop_keys" \/ cbPc = "sbr_clear_keys"
                /\ RECORDED_KEYS' = <<>>
                /\ UNCHANGED recorded
                /\ ~BLOCKING_KEYS]_vars

\* C12: a replay worker sleeps, before each entry, the entry's offset_ms less
\* the offset_ms of the entry before it (0 before the first), so the time it
\* has slept when it has issued the call of an entry is that entry's
\* offset_ms.
C12_ReplayFidelity ==
    \A i \in 1..Len(workers) : workers[i].slept = workers[i].last_offset

NonDecreasing(s) == \A i \in 1..(Len(s) - 1) : s[i].offset_ms <= s[i + 1].offset_ms

\* C19: every sequence returned by get_recording is in chronological order:
\* offset_ms is non-decreasing along it, the synthetic releases included.
C19_ReturnedChronological ==
    Finalized => NonDecreasing(recorded)

\* no function that updates the buffer and the held-key set one after the
\* other is between its two updates
BetweenUpdates ==
    \/ cbPc \in {"rec_push", "sbr_clear_held"}
    \/ dpPc \in {"gr_drain", "stop_held"}

\* C20: while a session is Recording and no record_key_event call (and no
\* other function that updates both collections) is between its two updates,
\* a key is in the held-key set if and only if the last entry for that key in
\* the buffer is a press; the set never contains a key twice.
C20_HeldMatchesBuffer ==
    (BLOCKING_KEYS /\ ~BetweenUpdates) =>
        /\ \A k \in WASD \cup {ShiftLeft} :
              SeqContains(HELD_KEYS, k)
                 <=> /\ LastOf(RECORDED_KEYS, k) # 0
                     /\ RECORDED_KEYS[LastOf(RECORDED_KEYS, k)].is_press
        /\ \A i, j \in 1..Len(HELD_KEYS) : HELD_KEYS[i] = HELD_KEYS[j] => i = j

\* no handler is inside a function that changes the session state, the buffer
\* or the held-key set
NoUpdateInProgress ==
    /\ cbPc = "idle"
    /\ dpPc \in {"recv", "replay"}

\* C21: whenever the session state is Idle and no handler is inside a
\* function that updates it (after process start, after a harvest completed
\* by mark_auto_click_sent, after a discard), the recording buffer and the
\* held-key set are both empty.
C21_IdleMeansEmpty ==
    (~BLOCKING_KEYS /\ NoUpdateInProgress)
        => RECORDED_KEYS = <<>> /\ HELD_KEYS = <<>>

\* C22: the clears of stop_blocking_keys never remove an entry or a key of a
\* session that began after the discard cleared the blocking flag: when such
\* a session exists, the buffer is empty at keys.clear() and the held-key
\* set is empty at held.clear().
C22_DiscardAtomic ==
    [][/\ (dpPc = "stop_keys" /\ dpPc' # dpPc /\ ~sessHarvested)
            => RECORDED_KEYS = <<>>
       /\ (dpPc = "stop_held" /\ dpPc' # dpPc /\ ~sessHarvested)
            => HELD_KEYS = <<>>]_vars

\* the number of synthetic releases get_recording appended: one for each
\* drained key that is not ShiftLeft
Synthetic(held) == Len(SelectSeq(held, LAMBDA k : k # ShiftLeft))

\* C23: in every sequence get_recording returns, each synthetic release
\* follows a press of its key in that sequence; and once get_recording has
\* returned and no record_key_event call is between its two updates, no key
\* whose last buffer entry is a press is missing from the held-key set.
C23_HarvestConsistent ==
    Finalized =>
        /\ \A j \in (Len(recorded) - Synthetic(grHeld) + 1)..Len(recorded) :
              \E i \in 1..(j - 1) :
                  recorded[i].key = recorded[j].key /\ recorded[i].is_press
        /\ cbPc \notin {"rec_held", "rec_push"}
              => \A k \in WASD \cup {ShiftLeft} :
                    (/\ LastOf(RECORDED_KEYS, k) # 0
                     /\ RECORDED_KEYS[LastOf(RECORDED_KEYS, k)].is_press)
                        => SeqContains(HELD_KEYS, k)

\* C25: when get_recording runs for a trigger and no session has begun since
\* the last harvest or discard, it finds nothing: the buffer is empty at the
\* take, the held-key set is empty at the drain, and the sequence handed to
\* the replay start is empty.
C25_NoSessionHarvestsNothing ==
    sessHarvested =>
        /\ dpPc = "gr_take" => RECORDED_KEYS = <<>>
        /\ dpPc = "gr_drain" => (recorded = <<>> /\ HELD_KEYS = <<>>)

\* C27: once mark_auto_click_sent has run, at program time T,
\* should_ignore_event is true at every time in [T, T + 100) and false from
\* T + 100 on, T = 0 included.
C27_EchoWindow ==
    markedAt >= 0
        => (should_ignore_event <=> now < markedAt + MIN_CLICK_INTERVAL_MS)

\* C24: once a session is over (Idle) in which the release of a movement key
\* was suppressed while the host had the key down by a press that had
\* reached it, the host eventually receives a release of that key.
C24_OwedReleaseDelivered ==
    \A k \in WASD \cap PhysKeys :
        (hostKey[k] = "owed" /\ ~BLOCKING_KEYS) ~> (hostKey[k] = "up")

\* the callback is at a lock() of a mutex the dispatch loop holds
CbWaits ==
    \/ cbPc \in {"sbr_clear_keys", "rec_push"} /\ keysLock = "dispatch"
    \/ cbPc \in {"sbr_clear_held", "rec_held"} /\ heldLock = "dispatch"

\* the dispatch loop is at a lock() of a mutex the callback holds
DpWaits ==
    \/ dpPc \in {"gr_take", "stop_keys"} /\ keysLock = "callback"
    \/ dpPc \in {"gr_drain", "stop_held"} /\ heldLock = "callback"

\* C26: no execution context holds the buffer lock and the held-key lock at
\* the same time; the callback and the dispatch loop never wait for each
\* other; a handler that is not waiting for the other's lock can take its
\* next step, the channel send included; a replay worker can always take
\* its next step.
C26_NoDeadlock ==
    /\ \A who \in {"callback", "dispatch"} : ~(keysLock = who /\ heldLock = who)
    /\ ~(CbWaits /\ DpWaits)
    /\ (cbPc # "idle" /\ ~CbWaits) => ENABLED CbStep
    /\ (dpPc # "recv" /\ ~DpWaits) => ENABLED DpStep
    /\ cbPc = "send" => ENABLED CbSend
    /\ workers # <<>> => ENABLED (ReplayStep \/ ReplayExit)

\* C26 witness: record_key_event has updated the held-key set and waits at
\* the buffer lock, which get_recording holds
C26_Witness ==
    /\ cbPc = "rec_push"
    /\ keysLock = "dispatch"
    /\ dpPc = "gr_take"
    /\ HELD_KEYS # <<>>
====
